---- MODULE Spec2Model ----
(***************************************************************************)
(* A model of cmd/count_chords.go: the count_chords command walks a        *)
(* directory, scans every .crd file line by line, recognises chord tokens  *)
(* with chordRegex, canonicalises them with normalizeChord, counts them in *)
(* chordCounts and writes a report ranked by descending count.             *)
(*                                                                         *)
(* Go strings are modelled as sequences of one-character strings, so that  *)
(* matching, slicing and formatting are computed character by character.   *)
(***************************************************************************)
EXTENDS Integers, Sequences, FiniteSets, TLC

VARIABLES
    files,        \* the directory tree under inputDir, in filepath.Walk order
    outFile,      \* the content of outputFile on disk
    pc,           \* position of CountChordsAction
    fileIdx,      \* index of the walk entry being visited
    lineNumber,   \* lines of the current file read so far
    matches,      \* matches of the current line not yet counted
    chordCounts,  \* map[string]int
    frequencies,  \* []chordFrequency
    outputLines,  \* []string
    failed,       \* history: an access, open or read of this invocation failed
    writes,       \* history: calls of os.WriteFile in this invocation
    recorded,     \* history: increments of chordCounts in this invocation
    readToEnd,    \* history: indices of the files read to EOF in this invocation
    input,        \* function harness: the string under test
    stage,        \* function harness: what has been applied to input
    tokens,       \* function harness: tokens extracted from input
    keys,         \* function harness: normalizeChord of each token
    part          \* function harness: normalizeChordPart(input)

vars == <<files, outFile, pc, fileIdx, lineNumber, matches, chordCounts,
          frequencies, outputLines, failed, writes, recorded, readToEnd,
          input, stage, tokens, keys, part>>

progVars == <<files, outFile, pc, fileIdx, lineNumber, matches, chordCounts,
              frequencies, outputLines, failed, writes, recorded, readToEnd>>

harnessVars == <<input, stage, tokens, keys, part>>

-----------------------------------------------------------------------------
(* Characters and strings                                                  *)

LowerLetters ==
    <<"a","b","c","d","e","f","g","h","i","j","k","l","m",
      "n","o","p","q","r","s","t","u","v","w","x","y","z">>

UpperLetters ==
    <<"A","B","C","D","E","F","G","H","I","J","K","L","M",
      "N","O","P","Q","R","S","T","U","V","W","X","Y","Z">>

Digits == <<"0","1","2","3","4","5","6","7","8","9">>

Range(s) == {s[i] : i \in DOMAIN s}

\* regexp \w (ASCII): the class \b is defined by
WordChars == Range(LowerLetters) \cup Range(UpperLetters) \cup Range(Digits) \cup {"_"}

\* unicode.IsSpace restricted to the characters the inputs use
WhiteSpace == {" ", "\t"}

\* strings.ToUpper / strings.ToLower on one character
ToUpper(c) ==
    IF c \in Range(LowerLetters)
    THEN UpperLetters[CHOOSE i \in DOMAIN LowerLetters : LowerLetters[i] = c]
    ELSE c

ToLower(c) ==
    IF c \in Range(UpperLetters)
    THEN LowerLetters[CHOOSE i \in DOMAIN UpperLetters : UpperLetters[i] = c]
    ELSE c

\* strings.ToLower on a string
ToLowerStr(s) == [i \in DOMAIN s |-> ToLower(s[i])]

\* s[from:] with a 0-based offset, as Go slices
From(s, n) == SubSeq(s, n + 1, Len(s))

\* s[:n]
Upto(s, n) == SubSeq(s, 1, n)

HasPrefix(s, p) == Len(p) <= Len(s) /\ Upto(s, Len(p)) = p

HasSuffix(s, p) == Len(p) <= Len(s) /\ From(s, Len(s) - Len(p)) = p

\* sub occurs in s at 0-based offset n
OccursAt(s, sub, n) ==
    n >= 0 /\ n + Len(sub) <= Len(s) /\ SubSeq(s, n + 1, n + Len(sub)) = sub

\* strings.Index: offset of the first occurrence, -1 if none
Index(s, sub) ==
    IF \E n \in 0..Len(s) : OccursAt(s, sub, n)
    THEN CHOOSE n \in 0..Len(s) :
             OccursAt(s, sub, n) /\ \A k \in 0..(n - 1) : ~OccursAt(s, sub, k)
    ELSE -1

\* strings.LastIndex: offset of the last occurrence, -1 if none
LastIndex(s, sub) ==
    IF \E n \in 0..Len(s) : OccursAt(s, sub, n)
    THEN CHOOSE n \in 0..Len(s) :
             OccursAt(s, sub, n) /\ \A k \in (n + 1)..Len(s) : ~OccursAt(s, sub, k)
    ELSE -1

Contains(s, sub) == Index(s, sub) >= 0

\* strings.ReplaceAll(s, old, new) for one-character old and new
ReplaceAll(s, old, new) == [i \in DOMAIN s |-> IF s[i] = old THEN new ELSE s[i]]

\* strings.Split(s, sep) for a one-character sep
RECURSIVE Split(_, _)
Split(s, sep) ==
    LET n == Index(s, <<sep>>)
    IN  IF n < 0 THEN <<s>> ELSE <<Upto(s, n)>> \o Split(From(s, n + 1), sep)

RECURSIVE TrimLeft(_)
TrimLeft(s) ==
    IF s # <<>> /\ Head(s) \in WhiteSpace THEN TrimLeft(Tail(s)) ELSE s

RECURSIVE TrimRight(_)
TrimRight(s) ==
    IF s # <<>> /\ s[Len(s)] \in WhiteSpace THEN TrimRight(Upto(s, Len(s) - 1)) ELSE s

\* strings.TrimSpace
TrimSpace(s) == TrimRight(TrimLeft(s))

\* fmt.Sprintf("%d", n) for n >= 0
RECURSIVE Decimal(_)
Decimal(n) ==
    IF n < 10 THEN <<Digits[n + 1]>> ELSE Decimal(n \div 10) \o <<Digits[(n % 10) + 1]>>

-----------------------------------------------------------------------------
(* chordRegex and tablatureRegex                                           *)

Roots == {"A", "B", "C", "D", "E", "F", "G"}

Accidentals == {"#", "b"}

\* the alternatives of the suffix group of chordRegex, in the order written
regexSuffixes ==
    << <<"m">>, <<"m","a","j","7">>, <<"a","d","d","9">>, <<"s","u","s","4">>,
       <<"d","i","m">>, <<"a","u","g">>, <<"7">>, <<"9">>, <<"1","1">>,
       <<"1","3">>, <<"m","a","j">>, <<"m","7">>, <<"m","9">>,
       <<"a","u","g","7">>, <<"d","i","m","7">> >>

\* \b after the first p characters of line
WordBoundary(line, p) ==
    LET before == p >= 1 /\ p <= Len(line) /\ line[p] \in WordChars
        after  == p + 1 >= 1 /\ p + 1 <= Len(line) /\ line[p + 1] \in WordChars
    IN  before # after

CharAt(line, p) == IF p >= 1 /\ p <= Len(line) THEN line[p] ELSE ""

\* (?:/[A-G](?:#|b)?)?\b after p characters: the end of the match, 0 if none.
\* Greedy: the inversion with its accidental, the inversion alone, nothing.
MatchInversion(line, p) ==
    LET inv == CharAt(line, p + 1) = "/" /\ CharAt(line, p + 2) \in Roots
    IN  IF inv /\ CharAt(line, p + 3) \in Accidentals /\ WordBoundary(line, p + 3)
        THEN p + 3
        ELSE IF inv /\ WordBoundary(line, p + 2)
        THEN p + 2
        ELSE IF WordBoundary(line, p)
        THEN p
        ELSE 0

\* (?:m|maj7|...)? and the rest after p characters, from alternative k on
RECURSIVE MatchSuffix(_, _, _)
MatchSuffix(line, p, k) ==
    IF k > Len(regexSuffixes)
    THEN MatchInversion(line, p)
    ELSE LET alt == regexSuffixes[k]
         IN  IF OccursAt(line, alt, p) /\ MatchInversion(line, p + Len(alt)) # 0
             THEN MatchInversion(line, p + Len(alt))
             ELSE MatchSuffix(line, p, k + 1)

\* \b[A-G](?:#|b)? and the rest with the root at position i (1-based):
\* the end of the leftmost-first match starting there, 0 if none
MatchAt(line, i) ==
    IF CharAt(line, i) \in Roots /\ WordBoundary(line, i - 1)
    THEN IF CharAt(line, i + 1) \in Accidentals /\ MatchSuffix(line, i + 1, 1) # 0
         THEN MatchSuffix(line, i + 1, 1)
         ELSE MatchSuffix(line, i, 1)
    ELSE 0

\* chordRegex.FindAllString(line, -1), searching from position i
RECURSIVE FindAllFrom(_, _)
FindAllFrom(line, i) ==
    IF i > Len(line)
    THEN <<>>
    ELSE LET e == MatchAt(line, i)
         IN  IF e # 0
             THEN <<SubSeq(line, i, e)>> \o FindAllFrom(line, e + 1)
             ELSE FindAllFrom(line, i + 1)

chordRegex(line) == FindAllFrom(line, 1)

\* tablatureRegex.MatchString(line): ^[eBgdAE]\|
tablatureRegex(line) ==
    Len(line) >= 2 /\ line[1] \in {"e", "B", "g", "d", "A", "E"} /\ line[2] = "|"

\* the metadata test of the line loop
IsMetadata(line) == HasPrefix(line, <<"{">>) \/ HasPrefix(line, <<"[">>)

\* the matches the line loop hands to the counting loop for one line
lineMatches(line) ==
    IF IsMetadata(line) \/ tablatureRegex(line) THEN <<>> ELSE chordRegex(line)

-----------------------------------------------------------------------------
(* normalizeChord                                                          *)

suffixes ==
    << <<"M","a","j">>, <<"M","a","j","7">>, <<"m","7">>, <<"m","9">>,
       <<"m","1","1">>, <<"m","1","3">>, <<"a","d","d","9">>, <<"s","u","s","4">>,
       <<"d","i","m">>, <<"d","i","m","7">>, <<"a","u","g">>, <<"a","u","g","7">>,
       <<"7">>, <<"9">>, <<"1","1">>, <<"1","3">> >>

reanchorOffByOne(chord, suffix) == Upto(chord, LastIndex(chord, suffix) + 1) \o suffix

\* index := strings.LastIndex(chord, suffix); chord = chord[:index] + suffix
reanchor(chord, suffix) == Upto(chord, LastIndex(chord, suffix)) \o suffix

\* the loop over suffixes, from entry k on
RECURSIVE applySuffixes(_, _)
applySuffixes(chord, k) ==
    IF k > Len(suffixes)
    THEN chord
    ELSE IF HasSuffix(chord, suffixes[k])
         THEN reanchor(chord, suffixes[k])
         ELSE applySuffixes(chord, k + 1)

normalizeChordPart(chord) ==
    IF Len(chord) = 0
    THEN <<>>
    ELSE LET upper == <<ToUpper(chord[1])>> \o From(chord, 1)
         IN  applySuffixes(ReplaceAll(upper, "M", "m"), 1)

normalizeChord(chord) ==
    LET trimmed == TrimSpace(chord)
        parts == Split(trimmed, "/")
        hasSlash == Contains(trimmed, <<"/">>)
        chordPart == normalizeChordPart(IF hasSlash THEN parts[1] ELSE trimmed)
        inversionPart == IF hasSlash THEN parts[2] ELSE <<>>
    IN  IF trimmed = <<>>
        THEN <<>>
        ELSE IF inversionPart # <<>>
        THEN chordPart \o <<"/">> \o normalizeChordPart(inversionPart)
        ELSE chordPart

-----------------------------------------------------------------------------
(* The corpus                                                              *)

\* most entries under inputDir
MaxFiles == 2

Line_CGAmF == <<"C"," ","G"," ","A","m"," ","F">>
Line_CCG == <<"C"," ","C"," ","G">>
Line_Meta == <<"{","t",":"," ","C","}">>
Line_Section == <<"[","A","m","]">>
Line_Tab == <<"e","|","-","A","-","|">>
Line_Inv == <<"B","m","/","D"," ","G">>

ExtCrd == <<".","c","r","d">>
ExtCrdUpper == <<".","C","R","D">>
ExtTxt == <<".","t","x","t">>

\* the entries filepath.Walk can hand to the callback
Entries ==
    { [isDir |-> TRUE,  ext |-> <<>>,        lines |-> <<>>],
      [isDir |-> FALSE, ext |-> ExtTxt,      lines |-> <<Line_CCG>>],
      [isDir |-> FALSE, ext |-> ExtCrd,      lines |-> <<>>],
      [isDir |-> FALSE, ext |-> ExtCrd,      lines |-> <<Line_CGAmF, Line_CCG>>],
      [isDir |-> FALSE, ext |-> ExtCrd,      lines |-> <<Line_CCG, Line_Section, Line_CGAmF>>],
      [isDir |-> FALSE, ext |-> ExtCrdUpper, lines |-> <<Line_Meta, Line_Tab, Line_Inv>>] }

Corpora == UNION {[1..n -> Entries] : n \in 0..MaxFiles}

\* strings.ToLower(filepath.Ext(path)) != ".crd" is false
IsSongFile(entry) == ~entry.isDir /\ ToLowerStr(entry.ext) = ExtCrd

-----------------------------------------------------------------------------
(* CountChordsAction                                                       *)

EmptyMap == [k \in {} |-> 0]

NoFile == [exists |-> FALSE, content |-> <<>>]

Header == << <<"C","h","o","r","d"," ","U","s","a","g","e"," ","S","t","a","t","i","s","t","i","c","s">>,
             <<"=","=","=","=","=","=","=","=","=","=","=","=","=","=","=","=","=","=","=","=","=","=">> >>

recordOverwrite(counts, key) ==
    IF key = <<>>
    THEN counts
    ELSE [k \in DOMAIN counts \cup {key} |-> IF k = key THEN 1 ELSE counts[k]]

recordTwice(counts, key) ==
    IF key = <<>>
    THEN counts
    ELSE [k \in DOMAIN counts \cup {key} |->
             IF k = key
             THEN (IF key \in DOMAIN counts THEN counts[key] ELSE 0) + 2
             ELSE counts[k]]

\* if normalizedChord != "" { chordCounts[normalizedChord]++ }
record(counts, key) ==
    IF key = <<>>
    THEN counts
    ELSE [k \in DOMAIN counts \cup {key} |->
             IF k = key
             THEN (IF key \in DOMAIN counts THEN counts[key] ELSE 0) + 1
             ELSE counts[k]]

lessAscending(a, b) == a.Count < b.Count

\* the comparison handed to sort.Slice
less(a, b) == a.Count > b.Count

walkFnResultIgnored(err, next) == next

\* the callback returns err, filepath.Walk stops and returns it, log.Fatalf exits
walkFnResult(err, next) == IF err THEN "fatal" ELSE next

\* the orders in which the elements of S can be listed
RECURSIVE Orderings(_)
Orderings(S) ==
    IF S = {}
    THEN {<<>>}
    ELSE UNION {{<<x>> \o q : q \in Orderings(S \ {x})} : x \in S}

\* fmt.Sprintf("%s: %d", freq.Chord, freq.Count)
formatLine(freq) == freq.Chord \o <<":", " ">> \o Decimal(freq.Count)

\* strings.Join(lines, "\n")
RECURSIVE Join(_)
Join(lines) ==
    IF lines = <<>>
    THEN <<>>
    ELSE IF Len(lines) = 1
    THEN lines[1]
    ELSE lines[1] \o <<"\n">> \o Join(Tail(lines))

HarnessOff ==
    /\ input = <<>>
    /\ stage = "off"
    /\ tokens = <<>>
    /\ keys = <<>>
    /\ part = <<>>

Init ==
    /\ files \in Corpora
    /\ outFile = NoFile
    /\ pc = "walk"
    /\ fileIdx = 1
    /\ lineNumber = 0
    /\ matches = <<>>
    /\ chordCounts = EmptyMap
    /\ frequencies = <<>>
    /\ outputLines = <<>>
    /\ failed = FALSE
    /\ writes = 0
    /\ recorded = 0
    /\ readToEnd = {}
    /\ HarnessOff

\* the command is run again over the same directory
Invoke ==
    /\ pc \in {"done", "fatal"}
    /\ pc' = "walk"
    /\ fileIdx' = 1
    /\ lineNumber' = 0
    /\ matches' = <<>>
    /\ chordCounts' = EmptyMap
    /\ frequencies' = <<>>
    /\ outputLines' = <<>>
    /\ failed' = FALSE
    /\ writes' = 0
    /\ recorded' = 0
    /\ readToEnd' = {}
    /\ UNCHANGED <<files, outFile>>
    /\ UNCHANGED harnessVars

\* the callback is called with err != nil
WalkAccessError ==
    /\ pc = "walk"
    /\ fileIdx <= Len(files)
    /\ pc' = walkFnResult(TRUE, "walk")
    /\ failed' = TRUE
    /\ UNCHANGED <<files, outFile, fileIdx, lineNumber, matches, chordCounts,
                   frequencies, outputLines, writes, recorded, readToEnd>>
    /\ UNCHANGED harnessVars

\* a directory, or a file whose extension is not .crd
WalkSkip ==
    /\ pc = "walk"
    /\ fileIdx <= Len(files)
    /\ ~IsSongFile(files[fileIdx])
    /\ pc' = walkFnResult(FALSE, "walk")
    /\ fileIdx' = fileIdx + 1
    /\ UNCHANGED <<files, outFile, lineNumber, matches, chordCounts, frequencies,
                   outputLines, failed, writes, recorded, readToEnd>>
    /\ UNCHANGED harnessVars

OpenFile ==
    /\ pc = "walk"
    /\ fileIdx <= Len(files)
    /\ IsSongFile(files[fileIdx])
    /\ pc' = "scan"
    /\ lineNumber' = 0
    /\ UNCHANGED <<files, outFile, fileIdx, matches, chordCounts, frequencies,
                   outputLines, failed, writes, recorded, readToEnd>>
    /\ UNCHANGED harnessVars

OpenError ==
    /\ pc = "walk"
    /\ fileIdx <= Len(files)
    /\ IsSongFile(files[fileIdx])
    /\ pc' = walkFnResult(TRUE, "walk")
    /\ failed' = TRUE
    /\ UNCHANGED <<files, outFile, fileIdx, lineNumber, matches, chordCounts,
                   frequencies, outputLines, writes, recorded, readToEnd>>
    /\ UNCHANGED harnessVars

\* scanner.Scan() returns a line: classify it and find its matches
ScanLine ==
    /\ pc = "scan"
    /\ matches = <<>>
    /\ lineNumber < Len(files[fileIdx].lines)
    /\ lineNumber' = lineNumber + 1
    /\ matches' = lineMatches(files[fileIdx].lines[lineNumber + 1])
    /\ UNCHANGED <<files, outFile, pc, fileIdx, chordCounts, frequencies,
                   outputLines, failed, writes, recorded, readToEnd>>
    /\ UNCHANGED harnessVars

\* one iteration of the loop over matches
Record ==
    /\ pc = "scan"
    /\ matches # <<>>
    /\ LET normalizedChord == normalizeChord(Head(matches))
       IN  /\ chordCounts' = record(chordCounts, normalizedChord)
           /\ recorded' = IF normalizedChord # <<>> THEN recorded + 1 ELSE recorded
    /\ matches' = Tail(matches)
    /\ UNCHANGED <<files, outFile, pc, fileIdx, lineNumber, frequencies,
                   outputLines, failed, writes, readToEnd>>
    /\ UNCHANGED harnessVars

\* scanner.Scan() returns false and scanner.Err() is not nil
ReadError ==
    /\ pc = "scan"
    /\ matches = <<>>
    /\ pc' = walkFnResult(TRUE, "walk")
    /\ failed' = TRUE
    /\ UNCHANGED <<files, outFile, fileIdx, lineNumber, matches, chordCounts,
                   frequencies, outputLines, writes, recorded, readToEnd>>
    /\ UNCHANGED harnessVars

\* scanner.Scan() returns false at the end of the file, scanner.Err() is nil
EndOfFile ==
    /\ pc = "scan"
    /\ matches = <<>>
    /\ lineNumber = Len(files[fileIdx].lines)
    /\ pc' = walkFnResult(FALSE, "walk")
    /\ readToEnd' = readToEnd \cup {fileIdx}
    /\ fileIdx' = fileIdx + 1
    /\ lineNumber' = 0
    /\ UNCHANGED <<files, outFile, matches, chordCounts, frequencies,
                   outputLines, failed, writes, recorded>>
    /\ UNCHANGED harnessVars

\* filepath.Walk returns nil
WalkEnd ==
    /\ pc = "walk"
    /\ fileIdx > Len(files)
    /\ pc' = walkFnResult(FALSE, "collect")
    /\ UNCHANGED <<files, outFile, fileIdx, lineNumber, matches, chordCounts,
                   frequencies, outputLines, failed, writes, recorded, readToEnd>>
    /\ UNCHANGED harnessVars

\* for chord, count := range chordCounts: Go iterates a map in no fixed order
Collect ==
    /\ pc = "collect"
    /\ frequencies' \in
           Orderings({[Chord |-> k, Count |-> chordCounts[k]] : k \in DOMAIN chordCounts})
    /\ pc' = "sort"
    /\ UNCHANGED <<files, outFile, fileIdx, lineNumber, matches, chordCounts,
                   outputLines, failed, writes, recorded, readToEnd>>
    /\ UNCHANGED harnessVars

\* sort.Slice is not stable: any order that less does not contradict
Sort ==
    /\ pc = "sort"
    /\ frequencies' \in
           {q \in Orderings(Range(frequencies)) :
               \A i, j \in DOMAIN q : i < j => ~less(q[j], q[i])}
    /\ pc' = "render"
    /\ UNCHANGED <<files, outFile, fileIdx, lineNumber, matches, chordCounts,
                   outputLines, failed, writes, recorded, readToEnd>>
    /\ UNCHANGED harnessVars

Render ==
    /\ pc = "render"
    /\ outputLines' = Header \o [i \in DOMAIN frequencies |-> formatLine(frequencies[i])]
    /\ pc' = "write"
    /\ UNCHANGED <<files, outFile, fileIdx, lineNumber, matches, chordCounts,
                   frequencies, failed, writes, recorded, readToEnd>>
    /\ UNCHANGED harnessVars

WriteFile ==
    /\ pc = "write"
    /\ outFile' = [exists |-> TRUE, content |-> Join(outputLines)]
    /\ writes' = writes + 1
    /\ pc' = "done"
    /\ UNCHANGED <<files, fileIdx, lineNumber, matches, chordCounts, frequencies,
                   outputLines, failed, recorded, readToEnd>>
    /\ UNCHANGED harnessVars

\* os.WriteFile fails: before opening (file untouched) or after truncating it
WriteError ==
    /\ pc = "write"
    /\ outFile' \in {outFile, [exists |-> TRUE, content |-> <<>>]}
    /\ writes' = writes + 1
    /\ pc' = "fatal"
    /\ UNCHANGED <<files, fileIdx, lineNumber, matches, chordCounts, frequencies,
                   outputLines, failed, recorded, readToEnd>>
    /\ UNCHANGED harnessVars

Next ==
    \/ Invoke
    \/ WalkAccessError
    \/ WalkSkip
    \/ OpenFile
    \/ OpenError
    \/ ScanLine
    \/ Record
    \/ ReadError
    \/ EndOfFile
    \/ WalkEnd
    \/ Collect
    \/ Sort
    \/ Render
    \/ WriteFile
    \/ WriteError

Spec == Init /\ [][Next]_vars

-----------------------------------------------------------------------------
(* The pure functions, applied to one input string                         *)

\* the suffix vocabulary of a chord token
Vocabulary ==
    { <<"m">>, <<"m","a","j">>, <<"m","a","j","7">>, <<"a","d","d","9">>, <<"s","u","s","4">>,
      <<"d","i","m">>, <<"d","i","m","7">>, <<"a","u","g">>, <<"a","u","g","7">>, <<"7">>,
      <<"9">>, <<"1","1">>, <<"1","3">>, <<"m","7">>, <<"m","9">>,
      <<"m","1","1">>, <<"m","1","3">> }

AccidentalTexts == {<<>>, <<"#">>, <<"b">>}

\* root + accidental + suffix
ChordText(r, a, s) == <<r>> \o a \o s

SuffixedTexts == {ChordText(r, a, s) : r \in Roots, a \in AccidentalTexts, s \in Vocabulary}

PlainTexts == {ChordText(r, a, <<>>) : r \in Roots, a \in AccidentalTexts}

\* the token between two other chords of a chord line
Between(t) == <<"G", " ">> \o t \o <<" ", "A", "m">>

InversionTexts ==
    {ChordText(r, a, s) \o <<"/">> \o b :
        r \in Roots, a \in AccidentalTexts,
        s \in Vocabulary \cup {<<>>},
        b \in {<<"D">>, <<"F","#">>, <<"B","b">>}}

TabBodies == { <<"-","-","3","-","-","2","-","-","0","-","-","|">>, <<"-","A","-","|">> }

TabLines == {<<x, "|">> \o body : x \in {"E", "A", "D", "G", "B", "e", "g", "d", "C"}, body \in TabBodies}

\* characters that continue no vocabulary suffix
Strays == {"x", "*"}

StrayTexts == {t \o <<c>> : t \in SuffixedTexts, c \in Strays}

OtherLines ==
    { Line_CGAmF, Line_CCG, Line_Meta, Line_Section, Line_Inv, <<>>,
      <<"c","M">>, <<" ","B","m","/","D"," ">>, <<"A","m","7","/","G"," ","C","#","m"," ","D">> }

Inputs ==
    SuffixedTexts \cup PlainTexts \cup {Between(t) : t \in SuffixedTexts \cup PlainTexts}
        \cup InversionTexts \cup TabLines \cup StrayTexts \cup OtherLines

ProgramIdle ==
    /\ files = <<>>
    /\ outFile = NoFile
    /\ pc = "idle"
    /\ fileIdx = 1
    /\ lineNumber = 0
    /\ matches = <<>>
    /\ chordCounts = EmptyMap
    /\ frequencies = <<>>
    /\ outputLines = <<>>
    /\ failed = FALSE
    /\ writes = 0
    /\ recorded = 0
    /\ readToEnd = {}

InitFn ==
    /\ ProgramIdle
    /\ input \in Inputs
    /\ stage = "input"
    /\ tokens = <<>>
    /\ keys = <<>>
    /\ part = <<>>

\* the body of the line loop up to FindAllString, on input as the line
ApplyLineMatches ==
    /\ stage = "input"
    /\ tokens' = lineMatches(input)
    /\ stage' = "extracted"
    /\ UNCHANGED <<input, keys, part>>
    /\ UNCHANGED progVars

\* normalizeChord on every match, as the loop over matches calls it
ApplyNormalizeChord ==
    /\ stage = "extracted"
    /\ keys' = [i \in DOMAIN tokens |-> normalizeChord(tokens[i])]
    /\ stage' = "canonical"
    /\ UNCHANGED <<input, tokens, part>>
    /\ UNCHANGED progVars

\* normalizeChordPart on input as the part
ApplyNormalizeChordPart ==
    /\ stage = "input"
    /\ part' = normalizeChordPart(input)
    /\ stage' = "part"
    /\ UNCHANGED <<input, tokens, keys>>
    /\ UNCHANGED progVars

NextFn ==
    \/ ApplyLineMatches
    \/ ApplyNormalizeChord
    \/ ApplyNormalizeChordPart

SpecFn == InitFn /\ [][NextFn]_vars

-----------------------------------------------------------------------------
(* Properties                                                              *)

AfterWalk == {"collect", "sort", "render", "write", "done"}

\* the matches of the lines the line loop scans (not metadata, not tablature)
RECURSIVE ScannedLineMatches(_)
ScannedLineMatches(lines) ==
    IF lines = <<>>
    THEN <<>>
    ELSE (IF IsMetadata(Head(lines)) \/ tablatureRegex(Head(lines))
          THEN <<>>
          ELSE chordRegex(Head(lines))) \o ScannedLineMatches(Tail(lines))

\* the matches of the scanned lines of the .crd files of a corpus
RECURSIVE ScannedMatches(_)
ScannedMatches(entries) ==
    IF entries = <<>>
    THEN <<>>
    ELSE (IF IsSongFile(Head(entries))
          THEN ScannedLineMatches(Head(entries).lines)
          ELSE <<>>) \o ScannedMatches(Tail(entries))

\* for every canonical key, the number of scanned matches that normalize to it
ExpectedCounts ==
    LET found == ScannedMatches(files)
        canon == [i \in DOMAIN found |-> normalizeChord(found[i])]
    IN  [k \in Range(canon) |-> Cardinality({i \in DOMAIN canon : canon[i] = k})]

ExampleCorpus ==
    << [isDir |-> FALSE, ext |-> ExtCrd, lines |-> <<Line_CGAmF, Line_CCG>>] >>

ExampleCounts ==
    [k \in {<<"C">>, <<"G">>, <<"A","m">>, <<"F">>} |->
        IF k = <<"C">> THEN 3 ELSE IF k = <<"G">> THEN 2 ELSE 1]

\* C1: when the walk has ended without error, and still when the report is
\* written, chordCounts holds for every
\* canonical key exactly the number of matches in the scanned lines that
\* normalize to it, and no other key; the lines "C G Am F" and "C C G" give
\* C: 3, G: 2, Am: 1, F: 1.
C1_FrequencyCorrect ==
    pc \in {"collect", "done"} =>
        /\ chordCounts = ExpectedCounts
        /\ \A k \in DOMAIN chordCounts : chordCounts[k] # 0
        /\ files = ExampleCorpus => chordCounts = ExampleCounts

C1_Witness ==
    /\ pc = "done"
    /\ files = ExampleCorpus
    /\ chordCounts = ExampleCounts

\* C2: a run over a corpus that an earlier run has already reported on is
\* about to write the very report that is on disk, ties included.
C2_ReportReproducible ==
    (pc = "write" /\ outFile.exists /\ outFile.content # <<>>) =>
        Join(outputLines) = outFile.content

\* C3: the report is the two header lines followed by one line "<key>: <count>"
\* for each key of chordCounts, each key on exactly one line with its count,
\* and the count never increases from one entry line to the next.
C3_ReportRanked ==
    pc \in {"write", "done"} =>
        /\ Len(outputLines) = 2 + Cardinality(DOMAIN chordCounts)
        /\ SubSeq(outputLines, 1, 2) = Header
        /\ \A k \in DOMAIN chordCounts :
               Cardinality({i \in 3..Len(outputLines) :
                   outputLines[i] = k \o <<":", " ">> \o Decimal(chordCounts[k])}) = 1
        /\ \A i \in 3..Len(outputLines) :
               /\ frequencies[i - 2].Chord \in DOMAIN chordCounts
               /\ frequencies[i - 2].Count = chordCounts[frequencies[i - 2].Chord]
               /\ outputLines[i] = frequencies[i - 2].Chord \o <<":", " ">>
                                       \o Decimal(frequencies[i - 2].Count)
               /\ i < Len(outputLines) => frequencies[i - 2].Count >= frequencies[i - 1].Count
        /\ pc = "done" => outFile = [exists |-> TRUE, content |-> Join(outputLines)]

C3_Witness ==
    /\ pc = "done"
    /\ Len(outputLines) = 7
    /\ frequencies[1].Count = 3
    /\ frequencies[2].Count = 3
    /\ frequencies[3].Count = 1

StringNames == {"E", "A", "D", "G", "B", "e"}

\* C4: a line that starts with one of E, A, D, G, B, e followed by "|" is
\* skipped: no token is extracted from it.
C4_TablatureSkipped ==
    (stage = "extracted" /\ Len(input) >= 2 /\ input[1] \in StringNames /\ input[2] = "|") =>
        tokens = <<>>

\* C5: a line that is a root, an optional accidental and a vocabulary suffix,
\* alone or between two other chords, yields that text as exactly one token.
C5_VocabularyRecognized ==
    stage = "extracted" =>
        \A t \in SuffixedTexts :
            /\ input = t => tokens = <<t>>
            /\ input = Between(t) => tokens = << <<"G">>, t, <<"A","m">> >>

\* C6: normalizeChord applied to the canonical key of a recognized token
\* returns that key.
C6_Idempotent ==
    stage = "canonical" => \A i \in DOMAIN keys : normalizeChord(keys[i]) = keys[i]

C6_Witness ==
    /\ stage = "canonical"
    /\ tokens = << <<"A","m","7","/","G">>, <<"C","#","m">>, <<"D">> >>
    /\ keys = tokens

\* C7: normalizeChordPart of a root, optional accidental and vocabulary suffix
\* followed by a stray character returns the text without the stray character.
C7_StrayTruncated ==
    stage = "part" =>
        \A t \in SuffixedTexts : \A c \in Strays : input = t \o <<c>> => part = t

\* C8: a line that is a root and an accidental is recognized whole and
\* counted under root + accidental.
C8_AccidentalKept ==
    stage = "canonical" =>
        \A r \in Roots : \A a \in Accidentals :
            input = <<r, a>> => (tokens = <<input>> /\ keys = <<input>>)

RECURSIVE SumOver(_, _)
SumOver(counts, ks) ==
    IF ks = {}
    THEN 0
    ELSE LET k == CHOOSE x \in ks : TRUE
         IN  counts[k] + SumOver(counts, ks \ {k})

TableSound ==
    /\ \A k \in DOMAIN chordCounts : chordCounts[k] >= 1
    /\ SumOver(chordCounts, DOMAIN chordCounts) = recorded

TableStep ==
    pc \notin {"done", "fatal"} =>
        /\ \A k \in DOMAIN chordCounts :
               k \in DOMAIN chordCounts' /\ chordCounts'[k] >= chordCounts[k]
        /\ recorded' \in {recorded, recorded + 1}
        /\ recorded' = recorded => chordCounts' = chordCounts
        /\ recorded' = recorded + 1 =>
               \E k \in DOMAIN chordCounts' :
                   /\ chordCounts'[k] = (IF k \in DOMAIN chordCounts THEN chordCounts[k] ELSE 0) + 1
                   /\ DOMAIN chordCounts' = DOMAIN chordCounts \cup {k}
                   /\ \A j \in DOMAIN chordCounts' \ {k} : chordCounts'[j] = chordCounts[j]

\* C9: during one invocation every count is at least 1 and the counts sum to
\* the number of tokens recorded; a step never removes a key nor lowers a
\* count, and recording one token raises exactly one count by exactly 1.
C9_TableOnlyGrows == []TableSound /\ [][TableStep]_vars

C9_Witness ==
    /\ pc = "scan"
    /\ recorded = 5
    /\ <<"C">> \in DOMAIN chordCounts
    /\ chordCounts[<<"C">>] = 2
    /\ Cardinality(DOMAIN chordCounts) = 4

SongFiles == {i \in DOMAIN files : IsSongFile(files[i])}

ErrorSound ==
    /\ writes <= 1
    /\ failed => (pc = "fatal" /\ writes = 0)
    /\ (writes = 1 \/ pc \in AfterWalk) =>
           (~failed /\ fileIdx = Len(files) + 1 /\ readToEnd = SongFiles)

ErrorStep ==
    (failed /\ failed') =>
        UNCHANGED <<fileIdx, lineNumber, matches, chordCounts, recorded, readToEnd, outFile>>

\* C10: after a failed access, open or read the invocation is over: it is at
\* its fatal exit, has not called os.WriteFile, and scans and counts nothing
\* more; os.WriteFile is called only after every .crd file was read to its end
\* without error, and at most once per invocation.
C10_FailureStopsRun == []ErrorSound /\ [][ErrorStep]_vars

C10_Witness ==
    /\ failed
    /\ pc = "fatal"
    /\ Len(files) = 2
    /\ fileIdx = 1
    /\ SongFiles = {1, 2}
    /\ files[2].lines # <<>>
    /\ recorded > 0
    /\ ~outFile.exists

====
